---------------------------- MODULE Spec2Model ----------------------------
(***************************************************************************)
(* Model of lw_export_overrides.py: the rule tables, the classifier        *)
(* should_exclude, and the run of main (profile lookup, rule-set           *)
(* construction, the filter loop over prefs.js, the write of the           *)
(* overrides file).                                                        *)
(*                                                                         *)
(* A Python str is modelled as a sequence of one-character strings, so     *)
(* that startswith, "in", lower and the regular expressions are computed   *)
(* character by character.  The empty str is << >>.                        *)
(***************************************************************************)
EXTENDS Integers, Sequences, FiniteSets, TLC

VARIABLES
  pc,                  \* the statement of main that runs next, or "done" / "error"
  fs,                  \* what main finds on disk: profiles.ini and the profiles' prefs.js
  args,                \* the parsed command line (argparse namespace)
  profile_dir,         \* main's local: the profile directory in use
  lines_read,          \* the lines of prefs.js the generator has read so far, in file order
  DEFAULTS,            \* the four module-level DEFAULT_* lists (Python lists, mutable)
  exclude_prefixes,    \* main's local: the active prefix denylist
  exclude_substrings,  \* main's local: the active substring denylist
  exclude_regexes,     \* main's local: the compiled denylist regexes
  include_regexes,     \* main's local: the compiled allowlist regexes
  kept,                \* main's local list
  dropped,             \* main's local list
  out_file,            \* the file at the output path: untouched, or what write_overrides wrote
  error,               \* the exception that ended the run, or "none"
  report,              \* the counts main prints at the end
  name,                \* classifier run: the name handed to should_exclude
  verdict              \* classifier run: "none", or the decision "keep" / "drop"

vars == <<pc, fs, args, profile_dir, lines_read, DEFAULTS, exclude_prefixes,
          exclude_substrings, exclude_regexes, include_regexes, kept, dropped,
          out_file, error, report, name, verdict>>

---------------------------------------------------------------------------
(* The module-level rule tables.                                           *)

DEFAULT_EXCLUDE_PREFIXES ==
  <<
    <<"b","r","o","w","s","e","r",".","s","e","s","s","i","o","n","s","t","o","r","e",".">>,
    <<"b","r","o","w","s","e","r",".","s","t","a","r","t","u","p",".">>,
    <<"b","r","o","w","s","e","r",".","e","n","g","a","g","e","m","e","n","t",".">>,
    <<"b","r","o","w","s","e","r",".","m","i","g","r","a","t","i","o","n",".">>,
    <<"b","r","o","w","s","e","r",".","p","r","o","t","e","c","t","i","o","n","s","_","p","a","n","e","l",".">>,
    <<"b","r","o","w","s","e","r",".","t","e","r","m","s","o","f","u","s","e",".">>,
    <<"d","e","v","t","o","o","l","s",".">>,
    <<"s","e","r","v","i","c","e","s",".","s","e","t","t","i","n","g","s",".">>,
    <<"b","r","o","w","s","e","r",".","r","e","g","i","o","n",".">>,
    <<"n","e","t","w","o","r","k",".","c","a","p","t","i","v","e","-","p","o","r","t","a","l","-","s","e","r","v","i","c","e",".">>,
    <<"n","e","t","w","o","r","k",".","c","o","n","n","e","c","t","i","v","i","t","y","-","s","e","r","v","i","c","e",".">>,
    <<"b","r","o","w","s","e","r",".","s","a","f","e","b","r","o","w","s","i","n","g",".","p","r","o","v","i","d","e","r",".">>,
    <<"e","x","t","e","n","s","i","o","n","s",".","w","e","b","e","x","t","e","n","s","i","o","n","s",".","E","x","t","e","n","s","i","o","n","S","t","o","r","a","g","e","I","D","B",".","m","i","g","r","a","t","e","d",".">>,
    <<"t","o","o","l","k","i","t",".","t","e","l","e","m","e","t","r","y",".","c","a","c","h","e","d">>,
    <<"d","a","t","a","r","e","p","o","r","t","i","n","g",".","d","a","u",".","c","a","c","h","e","d">>,
    <<"n","i","m","b","u","s",".">>,
    <<"d","o","m",".","p","u","s","h",".">>
  >>

DEFAULT_EXCLUDE_SUBSTRINGS ==
  <<
    <<"i","m","p","r","e","s","s","i","o","n","i","d">>,
    <<"s","t","o","r","e","i","d">>,
    <<"p","r","o","f","i","l","e","i","d">>,
    <<"c","l","i","e","n","t","i","d">>,
    <<"u","s","e","r","i","d">>,
    <<"p","u","s","h","i","d">>,
    <<"i","n","s","t","a","l","l","a","t","i","o","n","i","d">>,
    <<"i","n","s","t","a","n","c","e","i","d">>,
    <<"d","e","v","i","c","e","i","d">>,
    <<"m","a","c","h","i","n","e","i","d">>,
    <<"g","u","i","d">>,
    <<"l","a","s","t">>,
    <<"n","e","x","t">>,
    <<"d","a","t","e">>,
    <<"t","i","m","e">>,
    <<"s","e","c","o","n","d","s">>,
    <<"c","o","u","n","t">>,
    <<"c","o","u","n","t","e","r">>,
    <<"e","t","a","g">>,
    <<"s","k","e","w">>,
    <<"p","e","n","d","i","n","g">>,
    <<"q","u","a","l","i","f","i","e","d">>,
    <<"m","i","g","r","a","t">>,
    <<"v","e","r","s","i","o","n">>,
    <<"s","c","h","e","m","a">>,
    <<"c","h","e","c","k","p","o","i","n","t">>,
    <<"h","a","s","-","u","s","e","d">>,
    <<"e","v","e","r">>,
    <<"s","e","e","n">>,
    <<"s","h","o","w","n">>,
    <<"m","o","s","t","r","e","c","e","n","t">>,
    <<"p","e","r","s","i","s","t","e","d","a","c","t","i","o","n","s">>,
    <<"u","i","c","u","s","t","o","m","i","z","a","t","i","o","n">>,
    <<"r","e","s","u","l","t","g","r","o","u","p","s">>,
    <<"q","u","a","r","a","n","t","i","n","e","d","d","o","m","a","i","n","s">>,
    <<"t","e","m","p","d","i","r","s","u","f","f","i","x">>,
    <<"b","l","a","c","k","l","i","s","t",".">>,
    <<"f","a","i","l","u","r","e","i","d">>,
    <<"h","a","s","h","v","a","l","u","e">>,
    <<"b","u","i","l","d","i","d">>
  >>

DEFAULT_EXCLUDE_REGEXES ==
  <<
    <<"^","p","r","i","v","a","c","y","\\",".","p","u","r","g","e","_","t","r","a","c","k","e","r","s","\\",".","(","l","a","s","t","_","p","u","r","g","e","|","d","a","t","e","_","i","n","_","c","o","o","k","i","e","_","d","a","t","a","b","a","s","e",")","$">>,
    <<"^","p","r","i","v","a","c","y","\\",".","s","a","n","i","t","i","z","e","\\",".","p","e","n","d","i","n","g","$">>,
    <<"^","b","r","o","w","s","e","r","\\",".","s","e","a","r","c","h","\\",".","t","o","t","a","l","S","e","a","r","c","h","e","s","$">>,
    <<"^","b","r","o","w","s","e","r","\\",".","p","a","g","e","A","c","t","i","o","n","s","\\",".","p","e","r","s","i","s","t","e","d","A","c","t","i","o","n","s","$">>,
    <<"^","b","r","o","w","s","e","r","\\",".","u","i","C","u","s","t","o","m","i","z","a","t","i","o","n","\\",".","s","t","a","t","e","$">>,
    <<"^","b","r","o","w","s","e","r","\\",".","u","r","l","b","a","r","\\",".","r","e","s","u","l","t","G","r","o","u","p","s","$">>,
    <<"^","e","x","t","e","n","s","i","o","n","s","\\",".","q","u","a","r","a","n","t","i","n","e","d","D","o","m","a","i","n","s","\\",".","l","i","s","t","$">>,
    <<"^","s","e","c","u","r","i","t","y","\\",".","s","a","n","d","b","o","x","\\",".","c","o","n","t","e","n","t","\\",".","t","e","m","p","D","i","r","S","u","f","f","i","x","$">>,
    <<"^","g","f","x","\\",".","b","l","a","c","k","l","i","s","t","\\",".">>,
    <<"^","m","e","d","i","a","\\",".","g","m","p","-">>,
    <<"^","p","r","i","n","t","\\",".","p","r","i","n","t","e","r","_">>,
    <<"^","p","r","i","n","t","\\",".","p","r","i","n","t","e","r","\\",".">>,
    <<"^","p","r","i","n","t","_","p","r","i","n","t","e","r","$">>
  >>

DEFAULT_INCLUDE_REGEXES ==
  <<
    <<"^","m","e","d","i","a","\\",".","e","m","e","\\",".","e","n","a","b","l","e","d","$">>,
    <<"^","b","r","o","w","s","e","r","\\",".","b","o","o","k","m","a","r","k","s","\\",".","f","i","l","e","$">>,
    <<"^","b","e","a","c","o","n","\\",".","e","n","a","b","l","e","d","$">>,
    <<"^","n","e","t","w","o","r","k","\\",".","t","r","r","\\",".">>,
    <<"^","n","e","t","w","o","r","k","\\",".","d","n","s","\\",".">>,
    <<"^","b","r","o","w","s","e","r","\\",".","c","o","n","t","e","n","t","b","l","o","c","k","i","n","g","\\",".">>,
    <<"^","p","r","i","v","a","c","y","\\",".","t","r","a","c","k","i","n","g","p","r","o","t","e","c","t","i","o","n","\\",".">>,
    <<"^","p","r","i","v","a","c","y","\\",".","g","l","o","b","a","l","p","r","i","v","a","c","y","c","o","n","t","r","o","l","\\",".","(","e","n","a","b","l","e","d","|","p","b","m","o","d","e",")","$">>,
    <<"^","p","r","i","v","a","c","y","\\",".","r","e","s","i","s","t","F","i","n","g","e","r","p","r","i","n","t","i","n","g","$">>,
    <<"^","p","r","i","v","a","c","y","\\",".","p","a","r","t","i","t","i","o","n","\\",".">>,
    <<"^","p","r","i","v","a","c","y","\\",".","f","i","r","s","t","p","a","r","t","y","\\",".","i","s","o","l","a","t","e","$">>,
    <<"^","p","r","i","v","a","c","y","\\",".","q","u","e","r","y","_","s","t","r","i","p","p","i","n","g","\\",".">>,
    <<"^","p","r","i","v","a","c","y","\\",".","u","s","e","r","C","o","n","t","e","x","t","\\",".">>,
    <<"^","d","o","m","\\",".","f","o","r","m","s","\\",".","a","u","t","o","c","o","m","p","l","e","t","e","\\",".","f","o","r","m","a","u","t","o","f","i","l","l","$">>,
    <<"^","t","o","o","l","k","i","t","\\",".","t","e","l","e","m","e","t","r","y","\\",".","(","e","n","a","b","l","e","d","|","u","n","i","f","i","e","d","|","s","e","r","v","e","r",")","$">>,
    <<"^","t","o","o","l","k","i","t","\\",".","t","e","l","e","m","e","t","r","y","\\",".","a","r","c","h","i","v","e","\\",".","e","n","a","b","l","e","d","$">>,
    <<"^","t","o","o","l","k","i","t","\\",".","t","e","l","e","m","e","t","r","y","\\",".","r","e","p","o","r","t","i","n","g","p","o","l","i","c","y","\\",".">>,
    <<"^","d","a","t","a","r","e","p","o","r","t","i","n","g","\\",".","h","e","a","l","t","h","r","e","p","o","r","t","\\",".">>,
    <<"^","d","a","t","a","r","e","p","o","r","t","i","n","g","\\",".","p","o","l","i","c","y","\\",".">>,
    <<"^","b","r","o","w","s","e","r","\\",".","s","a","f","e","b","r","o","w","s","i","n","g","\\",".","(","d","o","w","n","l","o","a","d","s","\\",".","r","e","m","o","t","e","\\",".","e","n","a","b","l","e","d","|","d","o","w","n","l","o","a","d","s","\\",".","r","e","m","o","t","e","\\",".","u","r","l","|","m","a","l","w","a","r","e","\\",".","e","n","a","b","l","e","d","|","p","h","i","s","h","i","n","g","\\",".","e","n","a","b","l","e","d",")","$">>,
    <<"^","d","o","m","\\",".","s","e","c","u","r","i","t","y","\\",".">>,
    <<"^","s","e","c","u","r","i","t","y","\\",".">>
  >>


---------------------------------------------------------------------------
(* str methods used by the classifier.                                     *)

UpperCase == <<"A","B","C","D","E","F","G","H","I","J","K","L","M","N","O","P","Q","R","S","T","U","V","W","X","Y","Z">>

LowerCase == <<"a","b","c","d","e","f","g","h","i","j","k","l","m","n","o","p","q","r","s","t","u","v","w","x","y","z">>

\* str.lower() on one character (the model's alphabet is ASCII)
lower_char(c) ==
  IF \E i \in 1..Len(UpperCase) : UpperCase[i] = c
    THEN LowerCase[CHOOSE i \in 1..Len(UpperCase) : UpperCase[i] = c]
    ELSE c

\* str.lower()
lower(s) == [i \in 1..Len(s) |-> lower_char(s[i])]

\* s.startswith(p)
startswith(s, p) ==
  /\ Len(p) <= Len(s)
  /\ \A i \in 1..Len(p) : s[i] = p[i]

\* sub in s
contains(s, sub) ==
  \E k \in 0..(Len(s) - Len(sub)) : \A i \in 1..Len(sub) : s[k + i] = sub[i]

---------------------------------------------------------------------------
(* re.compile and Pattern.search, for the pattern syntax the rule tables   *)
(* use: ^ and $ anchors, "." (any character), a backslash-escaped          *)
(* punctuation character, plain literals, and ( | ) groups.  Names hold no *)
(* newline (PREF_RE is matched against one line), so $ matches at the end  *)
(* of the name only.  The definitions avoid recursion along the pattern,   *)
(* which would exceed the evaluator's stack on the longer built-in         *)
(* patterns: a pattern is split at its middle instead.                     *)

Repeats == {"*", "+", "?"}

Digits == {"0","1","2","3","4","5","6","7","8","9"}

AlphaNum == {UpperCase[i] : i \in 1..Len(UpperCase)} \cup {LowerCase[i] : i \in 1..Len(LowerCase)} \cup Digits

\* number of consecutive backslashes that end right before index i of p
backslash_run(p, i) ==
  CHOOSE k \in 0..(i - 1) :
    /\ \A m \in 1..k : p[i - m] = "\\"
    /\ (k = i - 1 \/ p[i - k - 1] # "\\")

\* the character at index i is the second character of a backslash escape
escaped(p, i) == backslash_run(p, i) % 2 = 1

\* the compiled form of p: for each index, whether the character is escaped,
\* and the group nesting level at which it stands (both parentheses of a
\* group stand at the level outside the group)
parse(p) ==
  LET esc == [i \in 1..Len(p) |-> escaped(p, i)]
      opens == {i \in 1..Len(p) : p[i] = "(" /\ ~esc[i]}
      closes == {i \in 1..Len(p) : p[i] = ")" /\ ~esc[i]}
  IN  [pattern |-> p,
       esc |-> esc,
       level |-> [i \in 1..Len(p) |->
                    Cardinality({m \in opens : m < i}) - Cardinality({m \in closes : m <= i})]]

\* a repetition operator at index i has nothing before it to repeat
bare(r, i) ==
  i = 1 \/ (r.pattern[i - 1] \in {"(", "|", "^", "$"} /\ ~r.esc[i - 1])

\* re.compile(p) raises re.error: "bad escape (end of pattern)", "unbalanced
\* parenthesis", "missing ), unterminated subpattern", "nothing to repeat"
re_error(p) ==
  LET r == parse(p)
      n == Len(p)
  IN  \/ n > 0 /\ p[n] = "\\" /\ ~r.esc[n]
      \/ \E i \in 1..n : p[i] = ")" /\ ~r.esc[i] /\ r.level[i] < 0
      \/ n > 0 /\ r.level[n] + (IF p[n] = "(" /\ ~r.esc[n] THEN 1 ELSE 0) # 0
      \/ \E i \in 1..n : p[i] \in Repeats /\ ~r.esc[i] /\ bare(r, i)

\* p uses only the syntax modelled here (no character class, no counted or
\* postfix repetition, no (?...) extension, no \d-like escape)
in_syntax(p) ==
  LET r == parse(p)
  IN  \A i \in 1..Len(p) :
        /\ r.esc[i] => p[i] \notin AlphaNum
        /\ ~r.esc[i] => p[i] \notin {"[", "{"}
        /\ (~r.esc[i] /\ p[i] \in Repeats) =>
             (bare(r, i) /\ ~(i > 1 /\ p[i - 1] = "("))

\* positions of s reached from a position of from by consuming character c
eat(s, from, c) == {k + 1 : k \in {t \in from : t < Len(s) /\ s[t + 1] = c}}

\* positions of s reached from a position of from by consuming any character
eat_any(s, from) == {k + 1 : k \in {t \in from : t < Len(s)}}

\* |a - b|
dist(a, b) == IF a < b THEN b - a ELSE a - b

\* positions of s (0..Len(s), characters consumed) at which a match of the
\* alternation r.pattern[i..j-1] can end when it starts at a position of from
RECURSIVE match_alt(_, _, _, _, _), match_seq(_, _, _, _, _)
match_alt(r, i, j, s, from) ==
  LET p == r.pattern
      bars == {k \in i..(j - 1) : p[k] = "|" /\ ~r.esc[k] /\ r.level[k] = r.level[i]}
      starts == {i} \cup {b + 1 : b \in bars}
      stop(a) == IF \E b \in bars : b >= a
                   THEN CHOOSE b \in bars : b >= a /\ \A c \in bars : c >= a => b <= c
                   ELSE j
  IN  IF bars = {} THEN match_seq(r, i, j, s, from)
      ELSE UNION {match_seq(r, a, stop(a), s, from) : a \in starts}

\* the same for the concatenation r.pattern[i..j-1], which holds no "|"
\* outside a group: one item, or the two halves one after the other
match_seq(r, i, j, s, from) ==
  IF i >= j \/ from = {} THEN from
  ELSE
    LET p == r.pattern
        cuts == {k \in (i + 1)..(j - 1) :
                   ~r.esc[k] /\ r.level[k] = r.level[i] /\ p[k] # ")"}
        mid == (i + j) \div 2
    IN  IF cuts # {}
          THEN LET k == CHOOSE c \in cuts : \A c2 \in cuts : dist(c, mid) <= dist(c2, mid)
               IN  match_seq(r, k, j, s, match_seq(r, i, k, s, from))
        ELSE IF p[i] = "(" THEN match_alt(r, i + 1, j - 1, s, from)
        ELSE IF p[i] = "^" THEN from \cap {0}
        ELSE IF p[i] = "$" THEN from \cap {Len(s)}
        ELSE IF p[i] = "." THEN eat_any(s, from)
        ELSE IF p[i] = "\\" THEN eat(s, from, p[i + 1])
        ELSE eat(s, from, p[i])

\* r.search(s) is not None
search(r, s) == match_alt(r, 1, Len(r.pattern) + 1, s, 0..Len(s)) # {}

\* compile_regexes with a bad pattern skipped instead of raised
compile_regexes_skip_bad(patterns) ==
  [ok |-> TRUE,
   value |-> [i \in 1..Len(SelectSeq(patterns, LAMBDA p : ~re_error(p))) |->
                parse(SelectSeq(patterns, LAMBDA p : ~re_error(p))[i])]]

\* compile_regexes(patterns): the list of compiled patterns, or the re.error
\* that re.compile raises on the first bad one
compile_regexes(patterns) ==
  IF \E i \in 1..Len(patterns) : re_error(patterns[i])
    THEN [ok |-> FALSE, value |-> << >>]
    ELSE [ok |-> TRUE, value |-> [i \in 1..Len(patterns) |-> parse(patterns[i])]]

---------------------------------------------------------------------------
(* The classifier.                                                         *)

\* should_exclude with the prefix denylist consulted before the allowlist
should_exclude_prefix_first(n, ex_prefixes, ex_substrings, ex_regexes, in_regexes) ==
  IF \E i \in 1..Len(ex_prefixes) : startswith(n, ex_prefixes[i]) THEN TRUE
  ELSE IF \E i \in 1..Len(in_regexes) : search(in_regexes[i], n) THEN FALSE
  ELSE IF \E i \in 1..Len(ex_regexes) : search(ex_regexes[i], n) THEN TRUE
  ELSE IF \E i \in 1..Len(ex_substrings) : contains(lower(n), ex_substrings[i]) THEN TRUE
  ELSE FALSE

\* should_exclude ending in "return True": default-deny
should_exclude_default_deny(n, ex_prefixes, ex_substrings, ex_regexes, in_regexes) ==
  IF \E i \in 1..Len(in_regexes) : search(in_regexes[i], n) THEN FALSE
  ELSE TRUE

should_exclude(n, ex_prefixes, ex_substrings, ex_regexes, in_regexes) ==
  IF \E i \in 1..Len(in_regexes) : search(in_regexes[i], n) THEN FALSE
  ELSE IF \E i \in 1..Len(ex_regexes) : search(ex_regexes[i], n) THEN TRUE
  ELSE IF \E i \in 1..Len(ex_prefixes) : startswith(n, ex_prefixes[i]) THEN TRUE
  ELSE IF \E i \in 1..Len(ex_substrings) : contains(lower(n), ex_substrings[i]) THEN TRUE
  ELSE FALSE

---------------------------------------------------------------------------
(* Profile lookup.                                                         *)

\* pick_default_profile_dir(base_dir) on the profiles.ini of f: the index of
\* the section whose directory is returned, or the exception raised.  Each
\* section records whether its name starts with "profile", its Default
\* flag, whether it has a Path, and whether prefs.js is a file under it.
pick_default_profile_dir(f) ==
  IF ~f.profiles_ini THEN [ok |-> FALSE, value |-> "FileNotFoundError: profiles.ini"]
  ELSE
    LET profiles == {i \in 1..Len(f.sections) : f.sections[i].is_profile}
        \* list.sort(key = 0 if Default == "1" else 1) is stable
        before(i, j) ==
          \/ f.sections[i].Default /\ ~f.sections[j].Default
          \/ f.sections[i].Default = f.sections[j].Default /\ i < j
        usable == {i \in profiles : f.sections[i].Path /\ f.sections[i].prefs_js}
    IN  IF profiles = {} THEN [ok |-> FALSE, value |-> "RuntimeError: no profile sections"]
        ELSE IF usable = {} THEN [ok |-> FALSE, value |-> "RuntimeError: no usable profile"]
        ELSE [ok |-> TRUE,
              value |-> CHOOSE i \in usable : \A j \in usable \ {i} : before(i, j)]

\* (profile_dir / "prefs.js").is_file()
prefs_js_is_file(f, dir) ==
  IF dir = 0 THEN f.explicit_prefs_js ELSE f.sections[dir].prefs_js

---------------------------------------------------------------------------
(* Rule-set construction (main, lines 281-284).                            *)

\* the caller's prefixes replacing the built-in ones (args.exclude_prefix or DEFAULT)
active_exclude_prefixes_replace(defaults, extra) ==
  IF extra # << >> THEN extra ELSE defaults

active_exclude_prefixes(defaults, extra) == defaults \o extra

\* the substring list without the .lower() of line 282
active_exclude_substrings_as_given(defaults, extra) == defaults \o extra

active_exclude_substrings(defaults, extra) ==
  [i \in 1..(Len(defaults) + Len(extra)) |-> lower((defaults \o extra)[i])]

active_exclude_regexes(defaults, extra) == compile_regexes(defaults \o extra)

active_include_regexes(defaults, extra) == compile_regexes(defaults \o extra)

---------------------------------------------------------------------------
(* Reading prefs.js and the filter loop.                                   *)

\* PREF_RE.match(line): a line is either a well-formed user_pref line, which
\* carries a non-empty name ([^"]+) and a value, or any other line
PREF_RE_match(line) == line.kind = "user_pref"

\* the (name, value) pairs iter_user_prefs yields for the given lines
RECURSIVE iter_user_prefs(_)
iter_user_prefs(lines) ==
  IF lines = << >> THEN << >>
  ELSE LET rest == iter_user_prefs(Tail(lines))
       IN  IF PREF_RE_match(Head(lines))
             THEN <<[name |-> Head(lines).name, value |-> Head(lines).value]>> \o rest
             ELSE rest

\* a loop body that keeps one pair per name
kept_after_dedup(lst, pair, excluded) ==
  IF excluded \/ (\E i \in 1..Len(lst) : lst[i].name = pair.name) THEN lst
  ELSE Append(lst, pair)

\* kept after one pass of the loop body on pair (excluded: should_exclude's answer)
kept_after(lst, pair, excluded) == IF excluded THEN lst ELSE Append(lst, pair)

\* a loop body that puts the newest dropped pair first (insert(0, ...))
dropped_after_insert_first(lst, pair, excluded) ==
  IF excluded THEN <<pair>> \o lst ELSE lst

\* dropped after one pass of the loop body on pair
dropped_after(lst, pair, excluded) == IF excluded THEN Append(lst, pair) ELSE lst

\* write_overrides(prefs, out_path): the header, then one pref(...) line per pair
write_overrides(prefs) ==
  [state |-> "written",
   header |-> TRUE,
   lines |-> [i \in 1..Len(prefs) |-> [kind |-> "pref", name |-> prefs[i].name, value |-> prefs[i].value]]]

\* main with the output written before the filter loop
main_order_write_first == <<"locate", "rules", "write", "loop", "report", "done">>

\* the statements of main in program order
main_order == <<"locate", "rules", "loop", "write", "report", "done">>

\* the statement after statement s
after(s) == main_order[(CHOOSE i \in 1..Len(main_order) : main_order[i] = s) + 1]

---------------------------------------------------------------------------
(* Inputs.                                                                 *)

\* longest prefs.js read
MaxLines == 3

\* "security.sandbox.content.tempDirSuffix"
N_tempDirSuffix == <<"s","e","c","u","r","i","t","y",".","s","a","n","d","b","o","x",".","c","o","n","t","e","n","t",".","t","e","m","p","D","i","r","S","u","f","f","i","x">>

\* "security.tls.version.min"
N_tls_version_min == <<"s","e","c","u","r","i","t","y",".","t","l","s",".","v","e","r","s","i","o","n",".","m","i","n">>

\* "extensions.webextensions.uuids"
N_uuids == <<"e","x","t","e","n","s","i","o","n","s",".","w","e","b","e","x","t","e","n","s","i","o","n","s",".","u","u","i","d","s">>

\* "browser.sessionstore.window_state"
N_window_state == <<"b","r","o","w","s","e","r",".","s","e","s","s","i","o","n","s","t","o","r","e",".","w","i","n","d","o","w","_","s","t","a","t","e">>

\* "privacy.resistFingerprinting"
N_resistFingerprinting == <<"p","r","i","v","a","c","y",".","r","e","s","i","s","t","F","i","n","g","e","r","p","r","i","n","t","i","n","g">>

\* "privacy.sanitize.pending"
N_sanitize_pending == <<"p","r","i","v","a","c","y",".","s","a","n","i","t","i","z","e",".","p","e","n","d","i","n","g">>

\* "browser.tabs.warnOnClose"
N_warnOnClose == <<"b","r","o","w","s","e","r",".","t","a","b","s",".","w","a","r","n","O","n","C","l","o","s","e">>

\* "devtools.toolbox.host"
N_toolbox_host == <<"d","e","v","t","o","o","l","s",".","t","o","o","l","b","o","x",".","h","o","s","t">>

\* "Devtools.toolbox.host"
N_Toolbox_host == <<"D","e","v","t","o","o","l","s",".","t","o","o","l","b","o","x",".","h","o","s","t">>

\* "security.tls."
P_security_tls == <<"s","e","c","u","r","i","t","y",".","t","l","s",".">>

\* "Browser.Tabs."
P_Browser_Tabs == <<"B","r","o","w","s","e","r",".","T","a","b","s",".">>

\* "x."
P_x == <<"x",".">>

\* "UUID"
S_UUID == <<"U","U","I","D">>

\* "WarnOn"
S_WarnOn == <<"W","a","r","n","O","n">>

\* "zz"
S_zz == <<"z","z">>

\* "^security\.tls\."
R_security_tls == <<"^","s","e","c","u","r","i","t","y","\\",".","t","l","s","\\",".">>

\* "Close$"
R_Close == <<"C","l","o","s","e","$">>

\* "("
R_unclosed == <<"(">>

\* "^$"
R_empty_name == <<"^","$">>

\* "^devtools\.toolbox\."
R_devtools_toolbox == <<"^","d","e","v","t","o","o","l","s","\\",".","t","o","o","l","b","o","x","\\",".">>

\* "*a"
R_star == <<"*","a">>

\* "uuids$"
R_uuids == <<"u","u","i","d","s","$">>

Names == {N_tempDirSuffix, N_tls_version_min, N_uuids, << >>, N_window_state,
          N_resistFingerprinting, N_sanitize_pending, N_warnOnClose,
          N_toolbox_host, N_Toolbox_host}

ExcludePrefixArgs == { << >>, <<P_security_tls>>, << << >> >>, <<P_Browser_Tabs, P_x>> }

ExcludeSubstringArgs == { << >>, <<S_UUID>>, << << >> >>, <<S_WarnOn, S_zz>> }

ExcludeRegexArgs == { << >>, <<R_security_tls>>, <<R_Close, R_unclosed>>, <<R_empty_name>> }

IncludeRegexArgs == { << >>, <<R_devtools_toolbox>>, <<R_star>>, <<R_empty_name, R_uuids>> }

\* every caller-supplied pattern is in the modelled syntax
ArgsInSyntax(a) ==
  /\ \A i \in 1..Len(a.exclude_regex) : in_syntax(a.exclude_regex[i])
  /\ \A i \in 1..Len(a.include_regex) : in_syntax(a.include_regex[i])

\* command lines: any combination of the four repeatable options
CommandLines ==
  {a \in [exclude_prefix : ExcludePrefixArgs, exclude_substring : ExcludeSubstringArgs,
          exclude_regex : ExcludeRegexArgs, include_regex : IncludeRegexArgs,
          profile_dir : BOOLEAN] : ArgsInSyntax(a)}

\* the options of a that were given
Given(a) ==
  {o \in {"exclude_prefix", "exclude_substring", "exclude_regex", "include_regex"} : a[o] # << >>}

\* lines of prefs.js
Lines ==
  { [kind |-> "user_pref", name |-> N_warnOnClose, value |-> "false"],
    [kind |-> "user_pref", name |-> N_toolbox_host, value |-> "\"right\""],
    [kind |-> "other"] }

Section(is_profile, default, path, prefs_js) ==
  [is_profile |-> is_profile, Default |-> default, Path |-> path, prefs_js |-> prefs_js]

\* what is on disk under the base directory and under --profile-dir
Disks ==
  { [profiles_ini |-> FALSE, sections |-> << >>, explicit_prefs_js |-> FALSE],
    [profiles_ini |-> TRUE, sections |-> <<Section(FALSE, FALSE, FALSE, FALSE)>>,
     explicit_prefs_js |-> TRUE],
    [profiles_ini |-> TRUE,
     sections |-> <<Section(TRUE, TRUE, FALSE, TRUE), Section(TRUE, FALSE, TRUE, FALSE)>>,
     explicit_prefs_js |-> FALSE],
    [profiles_ini |-> TRUE,
     sections |-> <<Section(FALSE, FALSE, FALSE, FALSE), Section(TRUE, FALSE, TRUE, TRUE),
                    Section(TRUE, TRUE, TRUE, FALSE), Section(TRUE, TRUE, TRUE, TRUE)>>,
     explicit_prefs_js |-> FALSE] }

Builtin ==
  [exclude_prefixes |-> DEFAULT_EXCLUDE_PREFIXES,
   exclude_substrings |-> DEFAULT_EXCLUDE_SUBSTRINGS,
   exclude_regexes |-> DEFAULT_EXCLUDE_REGEXES,
   include_regexes |-> DEFAULT_INCLUDE_REGEXES]

---------------------------------------------------------------------------
(* The run of main.                                                        *)

Fresh ==
  /\ DEFAULTS = Builtin
  /\ profile_dir = -1
  /\ lines_read = << >>
  /\ exclude_prefixes = << >>
  /\ exclude_substrings = << >>
  /\ exclude_regexes = << >>
  /\ include_regexes = << >>
  /\ kept = << >>
  /\ dropped = << >>
  /\ out_file = [state |-> "untouched"]
  /\ error = "none"
  /\ report = [read |-> 0, written |-> 0, skipped |-> 0]
  /\ name = << >>
  /\ verdict = "none"

Init ==
  /\ pc = "locate"
  /\ fs \in Disks
  /\ args \in {a \in CommandLines : Cardinality(Given(a)) <= 1}
  /\ Fresh

Raise(e) ==
  /\ pc' = "error"
  /\ error' = e

\* lines 273-279: base_dir, profile_dir, prefs_js.is_file(), out_path.
\* base_dir (--base-dir or autodetect_base_dir, which never raises) is the
\* directory fs describes; profile_dir 0 stands for --profile-dir.
Locate ==
  /\ pc = "locate"
  /\ LET pd == IF args.profile_dir THEN [ok |-> TRUE, value |-> 0]
               ELSE pick_default_profile_dir(fs)
     IN  IF ~pd.ok THEN Raise(pd.value) /\ UNCHANGED profile_dir
         ELSE /\ profile_dir' = pd.value
              /\ IF prefs_js_is_file(fs, pd.value)
                   THEN pc' = after("locate") /\ UNCHANGED error
                   ELSE Raise("FileNotFoundError: prefs.js")
  /\ UNCHANGED <<fs, args, lines_read, DEFAULTS, exclude_prefixes, exclude_substrings,
                 exclude_regexes, include_regexes, kept, dropped, out_file, report,
                 name, verdict>>

\* lines 281-287: the four active collections, then kept = [] and dropped = []
BuildRules ==
  /\ pc = "rules"
  /\ exclude_prefixes' = active_exclude_prefixes(DEFAULTS.exclude_prefixes, args.exclude_prefix)
  /\ exclude_substrings' =
       active_exclude_substrings(DEFAULTS.exclude_substrings, args.exclude_substring)
  /\ LET er == active_exclude_regexes(DEFAULTS.exclude_regexes, args.exclude_regex)
         ir == active_include_regexes(DEFAULTS.include_regexes, args.include_regex)
     IN  IF ~er.ok
           THEN /\ Raise("re.error")
                /\ UNCHANGED <<exclude_regexes, include_regexes, kept, dropped>>
         ELSE IF ~ir.ok
           THEN /\ Raise("re.error")
                /\ exclude_regexes' = er.value
                /\ UNCHANGED <<include_regexes, kept, dropped>>
         ELSE /\ exclude_regexes' = er.value
              /\ include_regexes' = ir.value
              /\ kept' = << >>
              /\ dropped' = << >>
              /\ pc' = after("rules")
              /\ UNCHANGED error
  /\ UNCHANGED <<fs, args, profile_dir, lines_read, DEFAULTS, out_file, report, name, verdict>>

\* lines 289-293, one pass: the generator reads the next line of prefs.js
\* (the file is read lazily, so its lines enter the state as they are read);
\* a line PREF_RE does not match is skipped inside the generator, a matching
\* one is classified and appended to kept or dropped
ReadLine ==
  /\ pc = "loop"
  /\ Len(lines_read) < MaxLines
  /\ \E line \in Lines :
       /\ lines_read' = Append(lines_read, line)
       /\ IF PREF_RE_match(line)
            THEN LET pair == [name |-> line.name, value |-> line.value]
                     excluded == should_exclude(pair.name, exclude_prefixes, exclude_substrings,
                                                exclude_regexes, include_regexes)
                 IN  /\ kept' = kept_after(kept, pair, excluded)
                     /\ dropped' = dropped_after(dropped, pair, excluded)
            ELSE UNCHANGED <<kept, dropped>>
  /\ UNCHANGED <<pc, fs, args, profile_dir, DEFAULTS, exclude_prefixes, exclude_substrings,
                 exclude_regexes, include_regexes, out_file, error, report, name, verdict>>

\* the generator is exhausted: the for loop ends
EndOfFile ==
  /\ pc = "loop"
  /\ pc' = after("loop")
  /\ UNCHANGED <<fs, args, profile_dir, lines_read, DEFAULTS, exclude_prefixes,
                 exclude_substrings, exclude_regexes, include_regexes, kept, dropped,
                 out_file, error, report, name, verdict>>

\* opening or reading prefs.js raises inside the generator
ReadError ==
  /\ pc = "loop"
  /\ Raise("OSError: read prefs.js")
  /\ UNCHANGED <<fs, args, profile_dir, lines_read, DEFAULTS, exclude_prefixes,
                 exclude_substrings, exclude_regexes, include_regexes, kept, dropped,
                 out_file, report, name, verdict>>

\* line 295: write_overrides(kept, out_path)
WriteOverrides ==
  /\ pc = "write"
  /\ out_file' = write_overrides(kept)
  /\ pc' = after("write")
  /\ UNCHANGED <<fs, args, profile_dir, lines_read, DEFAULTS, exclude_prefixes,
                 exclude_substrings, exclude_regexes, include_regexes, kept, dropped,
                 error, report, name, verdict>>

\* write_overrides raises: mkdir or open fails and the file is as it was, or
\* a write fails after open("w") has truncated it
WriteError ==
  /\ pc = "write"
  /\ Raise("OSError: write output")
  /\ \/ UNCHANGED out_file
     \/ out_file' = [state |-> "partial"]
  /\ UNCHANGED <<fs, args, profile_dir, lines_read, DEFAULTS, exclude_prefixes,
                 exclude_substrings, exclude_regexes, include_regexes, kept, dropped,
                 report, name, verdict>>

\* lines 297-322: the counts printed, return 0 (--stats and --print-skipped
\* only print more and change no state)
Report ==
  /\ pc = "report"
  /\ report' = [read |-> Len(kept) + Len(dropped), written |-> Len(kept),
                skipped |-> Len(dropped)]
  /\ pc' = after("report")
  /\ UNCHANGED <<fs, args, profile_dir, lines_read, DEFAULTS, exclude_prefixes,
                 exclude_substrings, exclude_regexes, include_regexes, kept, dropped,
                 out_file, error, name, verdict>>

Next ==
  \/ Locate
  \/ BuildRules
  \/ ReadLine
  \/ EndOfFile
  \/ ReadError
  \/ WriteOverrides
  \/ WriteError
  \/ Report

Spec == Init /\ [][Next]_vars

---------------------------------------------------------------------------
(* The classifier on its own: the rule set is built as main builds it and  *)
(* should_exclude is applied to one name.                                  *)

ClassifyInit ==
  /\ pc = "rules"
  /\ fs \in {f \in Disks : f.explicit_prefs_js}
  /\ args \in {a \in CommandLines : a.profile_dir}
  /\ Fresh

Classify ==
  /\ pc = "loop"
  /\ verdict = "none"
  /\ \E n \in Names :
       /\ name' = n
       /\ verdict' = IF should_exclude(n, exclude_prefixes, exclude_substrings,
                                       exclude_regexes, include_regexes)
                       THEN "drop" ELSE "keep"
  /\ UNCHANGED <<pc, fs, args, profile_dir, lines_read, DEFAULTS, exclude_prefixes,
                 exclude_substrings, exclude_regexes, include_regexes, kept, dropped,
                 out_file, error, report>>

ClassifyNext == BuildRules \/ Classify

ClassifySpec == ClassifyInit /\ [][ClassifyNext]_vars

---------------------------------------------------------------------------
(* Properties.                                                             *)

\* some pattern of the compiled list rs matches n
MatchesAny(rs, n) == \E i \in 1..Len(rs) : search(rs[i], n)

\* should_exclude has been applied to name
Decided == verdict # "none"

\* the source texts of a compiled list
Patterns(rs) == [i \in 1..Len(rs) |-> rs[i].pattern]

\* the pairs the input source has yielded so far
Input == iter_user_prefs(lines_read)

\* number of occurrences of x in sequence s
Count(s, x) == Cardinality({i \in 1..Len(s) : s[i] = x})

\* the elements of s at the indexes K, in the order of s
Sub(s, K) ==
  [i \in 1..Cardinality(K) |->
     s[CHOOSE k \in K : Cardinality({m \in K : m <= k}) = i]]

\* a is b with some elements left out
IsSubsequence(a, b) == \E K \in SUBSET (1..Len(b)) : a = Sub(b, K)

\* a caller-supplied regex that re.compile rejects
BadPattern(a) ==
  \/ \E i \in 1..Len(a.exclude_regex) : re_error(a.exclude_regex[i])
  \/ \E i \in 1..Len(a.include_regex) : re_error(a.include_regex[i])

\* the rule set has been constructed and main has gone on
Built == pc \in {"loop", "write", "report", "done"}

\* C1: a name that matches an exact-regex denylist pattern is decided drop,
\* whatever else it matches (allowlist regex, prefix, substring).
C1_DenyRegexAlwaysDrops ==
  (Decided /\ MatchesAny(exclude_regexes, name)) => verdict = "drop"

\* C2: a name that matches an allowlist regex and no exact-regex denylist
\* pattern is decided keep, even when a denylist prefix or substring matches.
C2_AllowlistKeeps ==
  (Decided /\ MatchesAny(include_regexes, name) /\ ~MatchesAny(exclude_regexes, name))
    => verdict = "keep"

\* C2 witness: security.tls.version.min is kept although the caller's prefix
\* "security.tls." and the built-in substring "version" both match it.
C2_Witness ==
  /\ Decided
  /\ name = N_tls_version_min
  /\ verdict = "keep"
  /\ MatchesAny(include_regexes, name)
  /\ ~MatchesAny(exclude_regexes, name)
  /\ \E i \in 1..Len(exclude_prefixes) : startswith(name, exclude_prefixes[i])
  /\ \E i \in 1..Len(exclude_substrings) : contains(lower(name), exclude_substrings[i])

\* C3: under the built-in rule set alone, extensions.webextensions.uuids is
\* decided drop.
C3_UuidsDropped ==
  (Decided /\ name = N_uuids /\ Given(args) = {}) => verdict = "drop"

\* C4: kept and dropped partition the pairs read so far: every occurrence is
\* in exactly one of them, nothing is deduplicated, the lengths add up at
\* every step, and the count printed at the end is the number of pairs.
C4_Partition ==
  /\ Len(kept) + Len(dropped) = Len(Input)
  /\ \A i \in 1..Len(Input) :
       Count(kept, Input[i]) + Count(dropped, Input[i]) = Count(Input, Input[i])
  /\ \A i \in 1..Len(kept) : \A j \in 1..Len(dropped) : kept[i] # dropped[j]
  /\ pc = "done" => report.read = Len(Input)

\* C4 witness: a finished run in which the same pair was read twice and kept
\* twice, and another pair was dropped.
C4_Witness ==
  /\ pc = "done"
  /\ Len(kept) = 2
  /\ kept[1] = kept[2]
  /\ Len(dropped) = 1

\* C5: kept and dropped are each a subsequence of the input: the relative
\* input order is preserved inside each partition.
C5_OrderPreserved ==
  /\ IsSubsequence(kept, Input)
  /\ IsSubsequence(dropped, Input)

\* C5 witness: a finished run that dropped two different pairs, which stand
\* in dropped in the order they were read.
C5_Witness ==
  /\ pc = "done"
  /\ Len(dropped) = 2
  /\ dropped[1] # dropped[2]
  /\ Input = dropped

\* C6: a malformed caller-supplied regex ends the run with re.error at
\* rule-set construction: main never goes on to the loop, nothing has been
\* read or classified, and the output file is untouched.
C6_BadPatternFailsFast ==
  BadPattern(args) =>
    /\ ~Built
    /\ lines_read = << >>
    /\ kept = << >>
    /\ dropped = << >>
    /\ out_file.state = "untouched"
    /\ (pc = "error" /\ profile_dir >= 0 /\ prefs_js_is_file(fs, profile_dir))
         => error = "re.error"

\* C6 witness: the run ended with re.error on a bad allowlist pattern after
\* the denylist patterns compiled.
C6_Witness ==
  /\ pc = "error"
  /\ error = "re.error"
  /\ \E i \in 1..Len(args.include_regex) : re_error(args.include_regex[i])
  /\ exclude_regexes # << >>

\* C7 as stated: each active collection is the built-in list followed by the
\* caller's entries as given, and once built neither the active collections
\* nor the built-in lists change.
C7_AsGiven ==
  Built =>
    /\ exclude_prefixes = DEFAULT_EXCLUDE_PREFIXES \o args.exclude_prefix
    /\ exclude_substrings = DEFAULT_EXCLUDE_SUBSTRINGS \o args.exclude_substring
    /\ Patterns(exclude_regexes) = DEFAULT_EXCLUDE_REGEXES \o args.exclude_regex
    /\ Patterns(include_regexes) = DEFAULT_INCLUDE_REGEXES \o args.include_regex
    /\ DEFAULTS = Builtin

\* the active collections as C7 amended describes them
C7_Appended ==
  Built =>
    /\ exclude_prefixes = DEFAULT_EXCLUDE_PREFIXES \o args.exclude_prefix
    /\ exclude_substrings =
         DEFAULT_EXCLUDE_SUBSTRINGS \o
           [i \in 1..Len(args.exclude_substring) |-> lower(args.exclude_substring[i])]
    /\ Patterns(exclude_regexes) = DEFAULT_EXCLUDE_REGEXES \o args.exclude_regex
    /\ Patterns(include_regexes) = DEFAULT_INCLUDE_REGEXES \o args.include_regex

\* the rule set is assigned by the construction step only
C7_BuiltOnce ==
  (<<exclude_prefixes, exclude_substrings, exclude_regexes, include_regexes>>' #
   <<exclude_prefixes, exclude_substrings, exclude_regexes, include_regexes>>)
    => (pc = "rules" /\ pc' # "rules")

\* C7 amended: each active collection is the built-in list followed by the
\* caller's entries in the order given, the substring entries lower-cased;
\* the rule set is built once, before the loop, and neither it, the command
\* line nor the built-in lists change afterwards.
C7_AppendedAndFrozen ==
  /\ []C7_Appended
  /\ [][C7_BuiltOnce /\ DEFAULTS' = DEFAULTS /\ args' = args]_vars

\* C7 witness: a finished run that classified lines with the caller's
\* substrings "WarnOn", "zz" in force.
C7_Witness ==
  /\ pc = "done"
  /\ args.exclude_substring = <<S_WarnOn, S_zz>>
  /\ dropped # << >>

\* C8 as stated: the empty name is decided keep under every active rule set.
C8_EmptyNameKept ==
  (Decided /\ name = << >>) => verdict = "keep"

\* C8 amended: no built-in rule matches the empty name; it is decided drop
\* exactly when no allowlist regex matches it and a caller-supplied prefix or
\* substring is the empty string or a caller-supplied denylist regex matches
\* the empty string, and keep otherwise.
C8_EmptyNameKeptUnlessCallerRuleMatches ==
  (Decided /\ name = << >>) =>
    (verdict = "drop" <=>
       /\ ~MatchesAny(include_regexes, << >>)
       /\ \/ \E i \in 1..Len(args.exclude_prefix) : args.exclude_prefix[i] = << >>
          \/ \E i \in 1..Len(args.exclude_substring) : args.exclude_substring[i] = << >>
          \/ \E i \in (Len(DEFAULT_EXCLUDE_REGEXES) + 1)..Len(exclude_regexes) :
               search(exclude_regexes[i], << >>))

\* C8 witness: the empty name is kept with caller-supplied prefix, substring
\* and denylist-regex entries in force, none of which matches it.
C8_Witness ==
  /\ Decided
  /\ name = << >>
  /\ verdict = "keep"
  /\ args.exclude_prefix = <<P_security_tls>>
  /\ args.exclude_substring = <<S_UUID>>
  /\ args.exclude_regex = <<R_security_tls>>
  /\ args.include_regex = << >>

\* C9: the output file is written only after the loop has ended, and then
\* holds the kept pairs of the whole input; while main locates the profile,
\* builds the rules or reads prefs.js, and after an abort at any of these
\* stages, it is untouched.
C9_WriteAfterClassification ==
  /\ pc \in {"locate", "rules", "loop", "write"} => out_file.state = "untouched"
  /\ (pc = "error" /\ error # "OSError: write output") => out_file.state = "untouched"
  /\ out_file.state = "written" =>
       /\ pc \in {"report", "done"}
       /\ out_file = write_overrides(kept)
       /\ Len(kept) + Len(dropped) = Len(Input)

\* C9 witness: reading prefs.js failed after a pair had been kept, and the
\* output file is untouched.
C9_Witness ==
  /\ pc = "error"
  /\ error = "OSError: read prefs.js"
  /\ kept # << >>
  /\ out_file.state = "untouched"

\* C10: a name that matches neither a denylist regex nor an allowlist regex is
\* decided drop exactly when it starts with a prefix entry (case-sensitive) or
\* its lower-cased form contains a lower-cased substring entry.
C10_PrefixOrSubstring ==
  (Decided /\ ~MatchesAny(exclude_regexes, name) /\ ~MatchesAny(include_regexes, name)) =>
    (verdict = "drop" <=>
       \/ \E i \in 1..Len(DEFAULT_EXCLUDE_PREFIXES \o args.exclude_prefix) :
            startswith(name, (DEFAULT_EXCLUDE_PREFIXES \o args.exclude_prefix)[i])
       \/ \E i \in 1..Len(DEFAULT_EXCLUDE_SUBSTRINGS \o args.exclude_substring) :
            contains(lower(name), lower((DEFAULT_EXCLUDE_SUBSTRINGS \o args.exclude_substring)[i])))

\* C10 witness: browser.tabs.warnOnClose is dropped for the caller's substring
\* "WarnOn" while the caller's prefix "Browser.Tabs." does not match it.
C10_Witness ==
  /\ Decided
  /\ name = N_warnOnClose
  /\ verdict = "drop"
  /\ args.exclude_prefix = <<P_Browser_Tabs, P_x>>
  /\ args.exclude_substring = <<S_WarnOn, S_zz>>
  /\ ~startswith(name, P_Browser_Tabs)
  /\ ~(\E i \in 1..Len(DEFAULT_EXCLUDE_SUBSTRINGS) :
         contains(lower(name), DEFAULT_EXCLUDE_SUBSTRINGS[i]))

===========================================================================
